---- MODULE Spec2Model ----
(***************************************************************************)
(* Model of the LoyaltyConsumer contract (the payment escrow state machine *)
(* of dms-osx): openNewLoyaltyPayment, closeNewLoyaltyPayment,             *)
(* openCancelLoyaltyPayment, closeCancelLoyaltyPayment and the two views.  *)
(* Every external call is one atomic EVM transaction: it either commits    *)
(* all of its writes or, when a require fails, reverts all of them.        *)
(* The Ledger, Shop and CurrencyRate contracts and the DMS library are     *)
(* collaborators whose code is not part of the checked sources; they are   *)
(* modelled from the specification's description of their interfaces.      *)
(***************************************************************************)
EXTENDS Integers, Sequences, FiniteSets, TLC

(***************************************************************************)
(* Bounds of the model.                                                    *)
(***************************************************************************)
\* number of times the block clock advances (by one cancel window)
MaxTicks == 2
\* cap on the shop account's nonce, i.e. on the number of accepted openCancel calls
MaxNonce == 2
\* block.timestamp of the first block of a behaviour
StartTime == 1700000000
\* point balance every payer starts with
InitialPoint == 5000
\* token balance the system account starts with (one fee's worth)
InitialSystemToken == 10
\* number of HTTP requests the relay serves concurrently
MaxRequests == 2

(***************************************************************************)
(* Program constants.                                                      *)
(***************************************************************************)
\* 86400 * 7, the cancel window of openCancelLoyaltyPayment
CancelWindow == 604800
\* block.chainid
ChainId == 24680
\* DMS.zeroGWEI granularity (1 gwei, scaled to the model's amounts)
GWEI == 10
\* ledgerContract.getPaymentFee(), in basis points
PaymentFee == 100

\* the payment ids the callers use
PaymentIds == {1, 2}
TickStep == CancelWindow

\* address(0x0); initialize() sets temporaryAddress to it, so it is the holding account
ZeroAddress == "0x0"
temporaryAddress == ZeroAddress
systemAccount == "system"
PaymentFeeAccount == "fee"
ShopAccount == "shop"
ShopDelegator == "delegate"
Payers == {"alice"}
\* an account that takes no part in any payment
Bystander == "bob"
\* an account that is neither a payer nor authorized by the shop
Stranger == "mallory"
Accounts == Payers \cup {Bystander, ZeroAddress, systemAccount, PaymentFeeAccount, ShopAccount, ShopDelegator, Stranger}

TheShopId == 7
PurchaseIds == {"P0001"}
Amounts == {1000, 1500}
Currencies == {"usd"}
Secrets == {1, 2}

LoyaltyPaymentStatus ==
    {"INVALID", "OPENED_PAYMENT", "CLOSED_PAYMENT", "FAILED_PAYMENT",
     "OPENED_CANCEL", "CLOSED_CANCEL", "FAILED_CANCEL"}

\* keccak256(abi.encode(_secret)): injective, and no secret is its own hash
Keccak(secret) == 100 + secret
SecretLocks == {Keccak(x) : x \in Secrets}
\* the lock the payer's wallet commits to, and the one the shop commits to for a cancel
OpenLocks == {Keccak(1)}
CancelLocks == {Keccak(2)}


\* the relay: its signers, the requests it serves at the same time, and its handlers
Signers == {"signer1", "signer2"}
Requests == 1 .. MaxRequests
Handlers == {"provision_register", "provision_send_account", "provision_send_phone_hash"}
NoRequest ==
    [pc |-> "idle", handler |-> "", signer |-> "", verified |-> FALSE, submitted |-> FALSE,
     result |-> ""]

(***************************************************************************)
(* State.                                                                  *)
(***************************************************************************)
VARIABLES
    loyaltyPayments, \* LoyaltyConsumerStorage.loyaltyPayments: paymentId -> LoyaltyPaymentData
    pointBalances,   \* Ledger: account -> point balance
    tokenBalances,   \* Ledger: account -> token balance
    nonce,           \* Ledger: account -> replay nonce
    usedAmount,      \* Shop: used amount of the shop
    shop,            \* Shop: the registered shop's ShopData
    now,             \* block.timestamp
    last,            \* the last call: its name, arguments, result code and emitted events
    accepted,        \* history: the signed open calls that were accepted so far
    held,            \* history: paymentId -> the statuses the record has left
    refunded,        \* history: paymentId -> the points given back to the payer for the record
    using,           \* relay: ISignerItem.using of each relay signer
    requests         \* relay: the state of each HTTP request handled by ProvisionRouter

chain == <<loyaltyPayments, pointBalances, tokenBalances, nonce, usedAmount>>
vars == <<loyaltyPayments, pointBalances, tokenBalances, nonce, usedAmount, shop, now, last, accepted, held,
          refunded, using, requests>>
relay == <<using, requests>>

\* the storage a transaction reads and writes, with the events it has emitted so far
World ==
    [loyaltyPayments |-> loyaltyPayments, pointBalances |-> pointBalances,
     tokenBalances |-> tokenBalances, nonce |-> nonce, usedAmount |-> usedAmount,
     events |-> <<>>]

\* a storage slot that was never written: every field is zero
EmptyPayment ==
    [paymentId |-> 0, purchaseId |-> "", currency |-> "", shopId |-> 0,
     account |-> ZeroAddress, secretLock |-> 0, timestamp |-> 0,
     paidPoint |-> 0, paidToken |-> 0, paidValue |-> 0,
     feePoint |-> 0, feeToken |-> 0, feeValue |-> 0,
     usedValueShop |-> 0, status |-> "INVALID"]

EmptyShop == [status |-> "INVALID", currency |-> "", account |-> ZeroAddress, delegator |-> ZeroAddress]

(***************************************************************************)
(* Outcome of (a prefix of) a transaction: ok with the storage reached, or *)
(* a revert with its error code and the storage at the point of failure.   *)
(***************************************************************************)
Ok(s) == [ok |-> TRUE, code |-> "0", st |-> s]
Revert(s, code) == [ok |-> FALSE, code |-> code, st |-> s]
Then(r, F(_)) == IF r.ok THEN F(r.st) ELSE r

(***************************************************************************)
(* ECDSA: a signature is the pair of its signer and the message it signs.  *)
(* Recovering against another message yields an address nobody controls.   *)
(***************************************************************************)
NoSignature == [signer |-> "", msg |-> <<>>]
Sign(signer, msg) == [signer |-> signer, msg |-> msg]
Recover(dataHash, signature) ==
    IF signature.msg = dataHash THEN signature.signer ELSE "0xgarbage"

(***************************************************************************)
(* CurrencyRate, DMS.                                                      *)
(***************************************************************************)
\* points per unit of a currency
Rate == [c \in {"usd", "krw"} |-> IF c = "usd" THEN 2 ELSE 1]
\* points per token
TokenRate == 2
convertCurrencyToPoint(amount, currency) == amount * Rate[currency]
convertPointToToken(point) == point \div TokenRate
convertCurrency(amount, from, to) == (amount * Rate[from]) \div Rate[to]
zeroGWEI(value) == (value \div GWEI) * GWEI

(***************************************************************************)
(* Ledger.                                                                 *)
(***************************************************************************)
pointBalanceOf(s, account) == s.pointBalances[account]
tokenBalanceOf(s, account) == s.tokenBalances[account]
nonceOf(s, account) == s.nonce[account]
increaseNonce(s, account) == [s EXCEPT !.nonce[account] = @ + 1]
addPointBalance(s, account, amount) == Ok([s EXCEPT !.pointBalances[account] = @ + amount])
subPointBalance(s, account, amount) ==
    IF s.pointBalances[account] >= amount
    THEN Ok([s EXCEPT !.pointBalances[account] = @ - amount])
    ELSE Revert(s, "1511")
addTokenBalance(s, account, amount) == Ok([s EXCEPT !.tokenBalances[account] = @ + amount])
subTokenBalance(s, account, amount) ==
    IF s.tokenBalances[account] >= amount
    THEN Ok([s EXCEPT !.tokenBalances[account] = @ - amount])
    ELSE Revert(s, "1511")
transferToken(s, from, to, amount) ==
    Then(subTokenBalance(s, from, amount), LAMBDA s1 : addTokenBalance(s1, to, amount))

(***************************************************************************)
(* Shop.                                                                   *)
(***************************************************************************)
shopOf(shopId) == IF shopId = TheShopId THEN shop ELSE EmptyShop
addUsedAmount(s, shopId, value) ==
    IF shopOf(shopId).status # "INVALID"
    THEN Ok([s EXCEPT !.usedAmount = @ + value])
    ELSE Ok(s)
subUsedAmount(s, shopId, value) ==
    IF shopOf(shopId).status = "INVALID" THEN Ok(s)
    ELSE IF s.usedAmount >= value THEN Ok([s EXCEPT !.usedAmount = @ - value])
    ELSE Revert(s, "panic")

\* faulty variant: nothing is logged
Emit_Silent(s, payment, balance) == s

\* emit LoyaltyPaymentEvent(payment, balance)
Emit(s, payment, balance) ==
    [s EXCEPT !.events = Append(@, [payment |-> payment, balance |-> balance])]

(***************************************************************************)
(* LoyaltyConsumer.                                                        *)
(***************************************************************************)
\* the hash the payer signs: keccak256(abi.encode(...)) of openNewLoyaltyPayment
PaymentHash(data, accountNonce) ==
    <<data.paymentId, data.purchaseId, data.amount, data.currency, data.shopId,
      data.account, ChainId, accountNonce>>

\* the hash the shop or its delegator signs in openCancelLoyaltyPayment
CancelHash(paymentId, purchaseId, signer, signerNonce) ==
    <<paymentId, purchaseId, signer, ChainId, signerNonce>>

\* faulty variant: the duplicate check is missing
isNewPaymentId_Always(s, data) == TRUE

\* require(loyaltyPayments[data.paymentId].status == INVALID, "1530")
isNewPaymentId(s, data) == s.loyaltyPayments[data.paymentId].status = "INVALID"

\* faulty variant: the recovered signer is not compared with the account
isSignedByPayer_Anyone(s, data) == data.signature.msg = PaymentHash(data, nonceOf(s, data.account))

\* require(ECDSA.recover(toEthSignedMessageHash(dataHash), data.signature) == data.account, "1501")
isSignedByPayer(s, data) ==
    Recover(PaymentHash(data, nonceOf(s, data.account)), data.signature) = data.account

\* faulty variant: the fee is taken from the payer but not put in escrow
escrowPoint_WithoutFee(s, data, paidPoint, feePoint) ==
    Then(subPointBalance(s, data.account, paidPoint + feePoint), LAMBDA s1 :
         addPointBalance(s1, temporaryAddress, paidPoint))

\* subPointBalance(data.account, ...); addPointBalance(temporaryAddress, ...)
escrowPoint(s, data, paidPoint, feePoint) ==
    Then(subPointBalance(s, data.account, paidPoint + feePoint), LAMBDA s1 :
         addPointBalance(s1, temporaryAddress, paidPoint + feePoint))

_openNewLoyaltyPaymentPoint(s, data) ==
    LET paidPoint == convertCurrencyToPoint(data.amount, data.currency)
        paidToken == convertPointToToken(paidPoint)
        feeValue == zeroGWEI((data.amount * PaymentFee) \div 10000)
        feePoint == convertCurrencyToPoint(feeValue, data.currency)
        feeToken == convertPointToToken(feePoint)
    IN  IF ~(pointBalanceOf(s, data.account) >= paidPoint + feePoint)
        THEN Revert(s, "1511")
        ELSE
            Then(escrowPoint(s, data, paidPoint, feePoint), LAMBDA s2 :
                LET s3 == [s2 EXCEPT !.loyaltyPayments[data.paymentId] =
                               [paymentId |-> data.paymentId,
                                purchaseId |-> data.purchaseId,
                                currency |-> data.currency,
                                shopId |-> data.shopId,
                                account |-> data.account,
                                secretLock |-> data.secretLock,
                                timestamp |-> now,
                                paidPoint |-> paidPoint,
                                paidToken |-> paidToken,
                                paidValue |-> data.amount,
                                feePoint |-> feePoint,
                                feeToken |-> feeToken,
                                feeValue |-> feeValue,
                                usedValueShop |-> 0,
                                status |-> "OPENED_PAYMENT"]]
                IN  Ok(Emit(s3, s3.loyaltyPayments[data.paymentId],
                            pointBalanceOf(s3, data.account))))

openNewLoyaltyPayment(s, data) ==
    IF ~isNewPaymentId(s, data) THEN Revert(s, "1530")
    ELSE IF ~isSignedByPayer(s, data) THEN Revert(s, "1501")
    ELSE _openNewLoyaltyPaymentPoint(increaseNonce(s, data.account), data)

\* faulty variant: a settled payment still counts as open
isOpenedPayment_OrClosed(s, _paymentId) ==
    s.loyaltyPayments[_paymentId].status \in {"OPENED_PAYMENT", "CLOSED_PAYMENT", "FAILED_PAYMENT"}

\* require(loyaltyPayments[_paymentId].status == OPENED_PAYMENT, "1531")
isOpenedPayment(s, _paymentId) == s.loyaltyPayments[_paymentId].status = "OPENED_PAYMENT"

\* require(loyaltyPayments[_paymentId].status == OPENED_CANCEL, "1533")
isOpenedCancel(s, _paymentId) == s.loyaltyPayments[_paymentId].status = "OPENED_CANCEL"

\* faulty variant: the secret is not checked
isSecretOf_Always(s, _paymentId, _secret) == TRUE

\* require(loyaltyPayments[_paymentId].secretLock == keccak256(abi.encode(_secret)), "1505")
isSecretOf(s, _paymentId, _secret) ==
    s.loyaltyPayments[_paymentId].secretLock = Keccak(_secret)

\* faulty variant: the fee transfer is attempted whatever the system account holds
payFee_Fatal(s, payment) ==
    Then(subTokenBalance(s, systemAccount, payment.feeToken), LAMBDA t :
         addTokenBalance(t, PaymentFeeAccount, payment.feeToken))

\* faulty variant: the fee is credited without being taken from the system account
payFee_Minted(s, payment) == addTokenBalance(s, PaymentFeeAccount, payment.feeToken)

\* if (tokenBalanceOf(systemAccount) >= feeToken) { subTokenBalance; addTokenBalance }
payFee(s, payment) ==
    IF tokenBalanceOf(s, systemAccount) >= payment.feeToken
    THEN Then(subTokenBalance(s, systemAccount, payment.feeToken), LAMBDA t :
              addTokenBalance(t, PaymentFeeAccount, payment.feeToken))
    ELSE Ok(s)

\* faulty variant: the status of the shop is not looked at
recordShopUsage_AnyShop(s, _paymentId) ==
    LET payment == s.loyaltyPayments[_paymentId]
        shopData == shopOf(payment.shopId)
        used == convertCurrency(payment.paidValue, payment.currency, shopData.currency)
    IN  addUsedAmount([s EXCEPT !.loyaltyPayments[_paymentId].usedValueShop = used],
                      payment.shopId, used)

\* if (shop.status == ACTIVE) { usedValueShop = convertCurrency(...); addUsedAmount(...) }
recordShopUsage(s, _paymentId) ==
    LET payment == s.loyaltyPayments[_paymentId]
        shopData == shopOf(payment.shopId)
    IN  IF shopData.status = "ACTIVE"
        THEN LET used == convertCurrency(payment.paidValue, payment.currency, shopData.currency)
             IN  addUsedAmount(
                     [s EXCEPT !.loyaltyPayments[_paymentId].usedValueShop = used],
                     payment.shopId, used)
        ELSE Ok(s)

\* faulty variant: the fee is not returned to the payer
refundPoint_WithoutFee(s, payment, totalPoint) ==
    Then(subPointBalance(s, temporaryAddress, totalPoint), LAMBDA s1 :
         addPointBalance(s1, payment.account, payment.paidPoint))

\* subPointBalance(temporaryAddress, totalPoint); addPointBalance(account, totalPoint)
refundPoint(s, payment, totalPoint) ==
    Then(subPointBalance(s, temporaryAddress, totalPoint), LAMBDA s1 :
         addPointBalance(s1, payment.account, totalPoint))

closeNewLoyaltyPayment(s, _paymentId, _secret, _confirm) ==
    IF ~isOpenedPayment(s, _paymentId) THEN Revert(s, "1531")
    ELSE IF ~isSecretOf(s, _paymentId, _secret) THEN Revert(s, "1505")
    ELSE
        LET payment == s.loyaltyPayments[_paymentId]
            totalPoint == payment.paidPoint + payment.feePoint
        IN  IF _confirm
            THEN
                Then(subPointBalance(s, temporaryAddress, totalPoint), LAMBDA s1 :
                Then(payFee(s1, payment), LAMBDA s2 :
                Then(recordShopUsage(s2, _paymentId), LAMBDA s3 :
                    LET s4 == [s3 EXCEPT !.loyaltyPayments[_paymentId].status = "CLOSED_PAYMENT"]
                    IN  Ok(Emit(s4, s4.loyaltyPayments[_paymentId],
                                pointBalanceOf(s4, payment.account))))))
            ELSE
                Then(refundPoint(s, payment, totalPoint), LAMBDA s2 :
                    LET s3 == [s2 EXCEPT !.loyaltyPayments[_paymentId].status = "FAILED_PAYMENT"]
                    IN  Ok(Emit(s3, s3.loyaltyPayments[_paymentId],
                                pointBalanceOf(s3, payment.account))))

\* the status guard of openCancelLoyaltyPayment, as written: a disjunction of two
\* inequalities on the same field
isCancelable(s, _paymentId) ==
    (s.loyaltyPayments[_paymentId].status # "CLOSED_PAYMENT")
        \/ (s.loyaltyPayments[_paymentId].status # "FAILED_CANCEL")

\* faulty variant: the last second of the window is excluded
inCancelWindow_Strict(s, _paymentId) == now < s.loyaltyPayments[_paymentId].timestamp + CancelWindow

\* require(block.timestamp <= loyaltyPayments[_paymentId].timestamp + 86400 * 7, "1534")
inCancelWindow(s, _paymentId) == now <= s.loyaltyPayments[_paymentId].timestamp + CancelWindow

\* faulty variant: the delegator is consulted without looking whether one is registered
isSignedByShop_AnyDelegate(s, _paymentId, _signature) ==
    LET payment == s.loyaltyPayments[_paymentId]
    IN  \E signer \in {ShopAccount, ShopDelegator} :
            Recover(CancelHash(_paymentId, payment.purchaseId, signer, nonceOf(s, signer)),
                    _signature) = signer

\* pass1 || pass2: the signature of the shop's account, or of its delegator when one is set
isSignedByShop(s, _paymentId, _signature) ==
    LET payment == s.loyaltyPayments[_paymentId]
        shopInfo == shopOf(payment.shopId)
        dataHash1 == CancelHash(_paymentId, payment.purchaseId, shopInfo.account,
                                nonceOf(s, shopInfo.account))
        pass1 == Recover(dataHash1, _signature) = shopInfo.account
        pass2 ==
            IF shopInfo.delegator # ZeroAddress
            THEN LET dataHash2 == CancelHash(_paymentId, payment.purchaseId,
                                             shopInfo.delegator,
                                             nonceOf(s, shopInfo.delegator))
                 IN  Recover(dataHash2, _signature) = shopInfo.delegator
            ELSE FALSE
    IN  pass1 \/ pass2

\* faulty variant: the points of the cancelled payment are not put in escrow
escrowCancel_Missing(s, payment) == Ok(s)

\* addPointBalance(temporaryAddress, paidPoint + feePoint) of openCancelLoyaltyPayment
escrowCancel(s, payment) ==
    addPointBalance(s, temporaryAddress, payment.paidPoint + payment.feePoint)

\* faulty variant: the cancel restarts the record's clock
lockCancel_Restamped(s, _paymentId, _secretLock) ==
    [s EXCEPT !.loyaltyPayments[_paymentId].secretLock = _secretLock,
              !.loyaltyPayments[_paymentId].timestamp = now,
              !.loyaltyPayments[_paymentId].status = "OPENED_CANCEL"]

\* loyaltyPayments[_paymentId].secretLock = _secretLock; .status = OPENED_CANCEL
lockCancel(s, _paymentId, _secretLock) ==
    [s EXCEPT !.loyaltyPayments[_paymentId].secretLock = _secretLock,
              !.loyaltyPayments[_paymentId].status = "OPENED_CANCEL"]

\* faulty variant: the balance of the fee account is not looked at
hasCancelFee_Always(s, payment) == TRUE

\* if (tokenBalanceOf(getPaymentFeeAccount()) >= feeToken) ... else revert("1513")
hasCancelFee(s, payment) == tokenBalanceOf(s, PaymentFeeAccount) >= payment.feeToken

openCancelLoyaltyPayment(s, _paymentId, _secretLock, _signature) ==
    IF ~isCancelable(s, _paymentId) THEN Revert(s, "1532")
    ELSE IF ~inCancelWindow(s, _paymentId) THEN Revert(s, "1534")
    ELSE IF ~isSignedByShop(s, _paymentId, _signature) THEN Revert(s, "1501")
    ELSE
        LET payment == s.loyaltyPayments[_paymentId]
            shopInfo == shopOf(payment.shopId)
            s1 == increaseNonce(s, shopInfo.account)
        IN  IF hasCancelFee(s1, payment)
            THEN
                Then(transferToken(s1, PaymentFeeAccount, temporaryAddress,
                                   payment.feeToken), LAMBDA s2 :
                Then(escrowCancel(s2, payment), LAMBDA s3 :
                    LET s4 == lockCancel(s3, _paymentId, _secretLock)
                    IN  Ok(Emit(s4, s4.loyaltyPayments[_paymentId],
                                pointBalanceOf(s4, payment.account)))))
            ELSE Revert(s1, "1513")

\* faulty variant: the points of a cancelled payment go to the shop's account
restorePoint_ToShop(s, payment) ==
    addPointBalance(s, shopOf(payment.shopId).account, payment.paidPoint + payment.feePoint)

\* faulty variant: the fee is not given back to the payer
restorePoint_WithoutFee(s, payment) == addPointBalance(s, payment.account, payment.paidPoint)

\* addPointBalance(account, paidPoint + feePoint) of closeCancelLoyaltyPayment
restorePoint(s, payment) ==
    addPointBalance(s, payment.account, payment.paidPoint + payment.feePoint)

\* faulty variant: the fee part stays in the holding account
burnEscrow_WithoutFee(s, payment) == subPointBalance(s, temporaryAddress, payment.paidPoint)

\* subPointBalance(temporaryAddress, paidPoint + feePoint) of closeCancelLoyaltyPayment
burnEscrow(s, payment) ==
    subPointBalance(s, temporaryAddress, payment.paidPoint + payment.feePoint)

closeCancelLoyaltyPayment(s, _paymentId, _secret, _confirm) ==
    IF ~isOpenedCancel(s, _paymentId) THEN Revert(s, "1533")
    ELSE IF ~isSecretOf(s, _paymentId, _secret) THEN Revert(s, "1505")
    ELSE
        LET payment == s.loyaltyPayments[_paymentId]
        IN  IF _confirm
            THEN
                Then(transferToken(s, temporaryAddress, systemAccount, payment.feeToken),
                     LAMBDA s1 :
                Then(restorePoint(s1, payment), LAMBDA s2 :
                    LET balance == pointBalanceOf(s2, payment.account)
                    IN
                Then(subUsedAmount(s2, payment.shopId, payment.usedValueShop), LAMBDA s3 :
                    LET s4 == [s3 EXCEPT !.loyaltyPayments[_paymentId].status = "CLOSED_CANCEL"]
                    IN  Ok(Emit(s4, s4.loyaltyPayments[_paymentId], balance)))))
            ELSE
                Then(transferToken(s, temporaryAddress, PaymentFeeAccount, payment.feeToken),
                     LAMBDA s1 :
                Then(burnEscrow(s1, payment), LAMBDA s2 :
                    LET balance == pointBalanceOf(s2, payment.account)
                        s3 == [s2 EXCEPT !.loyaltyPayments[_paymentId].status = "FAILED_CANCEL"]
                    IN  Ok(Emit(s3, s3.loyaltyPayments[_paymentId], balance))))

loyaltyPaymentOf(_paymentId) == loyaltyPayments[_paymentId]

\* faulty variant: the id of a refunded payment is offered again
isAvailablePaymentId_Reusable(_paymentId) ==
    loyaltyPayments[_paymentId].status \in {"INVALID", "FAILED_PAYMENT"}

isAvailablePaymentId(_paymentId) ==
    IF loyaltyPayments[_paymentId].status = "INVALID" THEN TRUE ELSE FALSE

(***************************************************************************)
(* Calls.  A call is one transaction: its writes are committed when it     *)
(* succeeds and discarded when a require fails or it reverts.              *)
(***************************************************************************)
NoArgs ==
    [paymentId |-> 0, purchaseId |-> "", amount |-> 0, currency |-> "", shopId |-> 0,
     account |-> ZeroAddress, secretLock |-> 0, secret |-> 0, confirm |-> FALSE,
     signature |-> NoSignature]

NoCall == [op |-> "none", args |-> NoArgs, events |-> <<>>]

\* the storage after the transaction whose outcome is r, started from pre
Commit(pre, r) == IF r.ok THEN r.st ELSE pre

\* A call that commits: its writes reach the chain and last remembers it with the events
\* it emitted.  A call that reverts writes nothing and emits nothing (only its caller sees
\* the error code), so it is a stuttering step and needs no action of its own.
Transact(op, args, r) ==
    LET post == Commit(World, r)
    IN  /\ r.ok
        /\ loyaltyPayments' = post.loyaltyPayments
        /\ pointBalances' = post.pointBalances
        /\ tokenBalances' = post.tokenBalances
        /\ nonce' = post.nonce
        /\ usedAmount' = post.usedAmount
        /\ last' = [op |-> op, args |-> args, events |-> post.events]
        /\ accepted' = IF op \in {"openPayment", "openCancel"}
                       THEN accepted \cup {[op |-> op, args |-> args]}
                       ELSE accepted
        /\ held' = [p \in PaymentIds |->
                       IF post.loyaltyPayments[p].status # loyaltyPayments[p].status
                       THEN held[p] \cup {loyaltyPayments[p].status}
                       ELSE held[p]]
        /\ refunded' = [p \in PaymentIds |->
                           IF p = args.paymentId /\ op \in {"closePayment", "closeCancel"}
                           THEN refunded[p] + post.pointBalances[loyaltyPayments[p].account]
                                            - pointBalances[loyaltyPayments[p].account]
                           ELSE refunded[p]]
        /\ UNCHANGED <<shop, now, relay>>

\* signatures of accepted calls of op, which anybody has seen and can send again (a
\* signature made for the other call signs a tuple of another shape and never matches)
Replayable(op) == {c.args.signature : c \in {x \in accepted : x.op = op}}

\* the requests a caller can send to openNewLoyaltyPayment in the current state
PaymentInputs ==
    UNION {
        LET unsigned == [NoArgs EXCEPT !.paymentId = paymentId, !.purchaseId = purchaseId,
                                       !.amount = amount, !.currency = currency,
                                       !.shopId = TheShopId, !.account = account,
                                       !.secretLock = secretLock]
            fresh == {Sign(signer, PaymentHash(unsigned, nonce[account])) :
                         signer \in {account, Stranger}}
        IN  {[unsigned EXCEPT !.signature = signature] :
                signature \in fresh \cup Replayable("openPayment")} :
        <<paymentId, purchaseId, amount, currency, account, secretLock>> \in
            PaymentIds \X PurchaseIds \X Amounts \X Currencies \X Payers \X OpenLocks}

\* the arguments a caller can send to closeNewLoyaltyPayment and closeCancelLoyaltyPayment
CloseInputs ==
    {[NoArgs EXCEPT !.paymentId = paymentId, !.secret = secret, !.confirm = confirm] :
        <<paymentId, secret, confirm>> \in PaymentIds \X Secrets \X BOOLEAN}

\* the arguments a caller can send to openCancelLoyaltyPayment in the current state
CancelInputs ==
    UNION {
        LET fresh == {Sign(signer, CancelHash(paymentId, loyaltyPayments[paymentId].purchaseId,
                                              signer, nonce[signer])) :
                         signer \in {ShopAccount, ShopDelegator, Stranger}}
        IN  {[NoArgs EXCEPT !.paymentId = paymentId, !.secretLock = secretLock,
                            !.signature = signature] :
                signature \in fresh \cup Replayable("openCancel")} :
        <<paymentId, secretLock>> \in PaymentIds \X CancelLocks}

openPayment(s, a) == openNewLoyaltyPayment(s, a)
closePayment(s, a) == closeNewLoyaltyPayment(s, a.paymentId, a.secret, a.confirm)
openCancel(s, a) == openCancelLoyaltyPayment(s, a.paymentId, a.secretLock, a.signature)
closeCancel(s, a) == closeCancelLoyaltyPayment(s, a.paymentId, a.secret, a.confirm)

OpenPayment ==
    \E data \in PaymentInputs : Transact("openPayment", data, openPayment(World, data))

ClosePayment ==
    \E a \in CloseInputs : Transact("closePayment", a, closePayment(World, a))

OpenCancel ==
    /\ nonce[ShopAccount] < MaxNonce
    /\ \E a \in CancelInputs : Transact("openCancel", a, openCancel(World, a))

CloseCancel ==
    \E a \in CloseInputs : Transact("closeCancel", a, closeCancel(World, a))

\* a later block: block.timestamp advances
Tick ==
    /\ now < StartTime + MaxTicks * TickStep
    /\ now' = now + TickStep
    /\ last' = NoCall
    /\ UNCHANGED <<chain, shop, accepted, held, refunded, relay>>

Init ==
    /\ loyaltyPayments = [p \in PaymentIds |-> EmptyPayment]
    /\ pointBalances = [a \in Accounts |-> IF a \in Payers THEN InitialPoint ELSE 0]
    /\ tokenBalances = [a \in Accounts |-> IF a = systemAccount THEN InitialSystemToken ELSE 0]
    /\ nonce = [a \in Accounts |-> 0]
    /\ usedAmount = 0
    /\ shop \in {[status |-> st, currency |-> "krw", account |-> ShopAccount, delegator |-> d] :
                    st \in {"ACTIVE", "INACTIVE"}, d \in {ShopDelegator, ZeroAddress}}
    /\ now = StartTime
    /\ last = NoCall
    /\ accepted = {}
    /\ held = [p \in PaymentIds |-> {}]
    /\ refunded = [p \in PaymentIds |-> 0]
    /\ using = [s \in Signers |-> FALSE]
    /\ requests = [r \in Requests |-> NoRequest]

Next == OpenPayment \/ ClosePayment \/ OpenCancel \/ CloseCancel \/ Tick

Spec == Init /\ [][Next]_vars

\* the requests of a relay that replaces the secretLock of a request it forwards
RelayedInputs ==
    {[data EXCEPT !.secretLock = secretLock] :
        data \in PaymentInputs, secretLock \in SecretLocks \ OpenLocks}

\* openNewLoyaltyPayment called by such a relay
OpenPaymentRelayed ==
    \E data \in RelayedInputs : Transact("openPayment", data, openPayment(World, data))

NextRelay == Next \/ OpenPaymentRelayed

\* the contract with relays that may alter the unsigned part of a request
SpecRelay == Init /\ [][NextRelay]_vars

(***************************************************************************)
(* ProvisionRouter (relay).  A handler runs until its next await; the steps *)
(* of concurrent requests interleave at these points.                      *)
(***************************************************************************)
\* faulty variant: the signer is released on the successful path only
Finally_OnSuccessOnly(r, result) ==
    /\ using' = IF result = "0" THEN [using EXCEPT ![requests[r].signer] = FALSE] ELSE using
    /\ requests' = [requests EXCEPT ![r].pc = "done", ![r].result = result,
                        ![r].submitted = (result = "0" /\ requests[r].handler # "provision_register")]

\* return / catch, then finally { this.releaseRelaySigner(signerItem) }: signer.using = false
Finally(r, result) ==
    /\ using' = [using EXCEPT ![requests[r].signer] = FALSE]
    /\ requests' = [requests EXCEPT ![r].pc = "done", ![r].result = result,
                        ![r].submitted = (result = "0" /\ requests[r].handler # "provision_register")]

\* validationResult(req) has errors: the handler returns 2001 before it asks for a signer
ProvisionInvalid ==
    \E r \in Requests, h \in Handlers :
        /\ requests[r].pc = "idle"
        /\ requests' = [requests EXCEPT ![r].pc = "done", ![r].handler = h, ![r].result = "2001"]
        /\ UNCHANGED using

\* const signerItem = await this.getRelaySigner(...): some signer, marked in use
getRelaySigner ==
    \E r \in Requests, h \in Handlers, s \in Signers :
        /\ requests[r].pc = "idle"
        /\ using' = [using EXCEPT ![s] = TRUE]
        /\ requests' = [requests EXCEPT ![r].pc = "try", ![r].handler = h, ![r].signer = s]

\* nonceOf, the message and ContractUtils.verifyMessage: the signature is good, or it is
\* bad and the handler returns 1501, or a call throws
verifyMessage ==
    \E r \in Requests :
        /\ requests[r].pc = "try"
        /\ \/ /\ requests' = [requests EXCEPT ![r].pc = "verified", ![r].verified = TRUE]
              /\ UNCHANGED using
           \/ Finally(r, "1501")
           \/ Finally(r, "error")

\* provision_register: tokenBalanceOf(provider) against the minimum, then postNewProvider
provision_register ==
    \E r \in Requests :
        /\ requests[r].handler = "provision_register"
        /\ \/ /\ requests[r].pc = "verified"
              /\ \/ /\ requests' = [requests EXCEPT ![r].pc = "funded"]
                    /\ UNCHANGED using
                 \/ Finally(r, "1511")
                 \/ Finally(r, "error")
           \/ /\ requests[r].pc = "funded"
              /\ Finally(r, "0") \/ Finally(r, "error")

\* provision_send_account / provision_send_phone_hash: provideToAddress / provideToPhone
\* is sent with the relay signer; it returns the transaction or throws
provision_send ==
    \E r \in Requests :
        /\ requests[r].handler \in {"provision_send_account", "provision_send_phone_hash"}
        /\ requests[r].pc = "verified"
        /\ Finally(r, "0") \/ Finally(r, "error")

NextProvision ==
    /\ ProvisionInvalid \/ getRelaySigner \/ verifyMessage \/ provision_register \/ provision_send
    /\ UNCHANGED <<chain, shop, now, last, accepted, held, refunded>>

\* the relay's provision handlers serving concurrent requests
SpecProvision == Init /\ [][NextProvision]_vars

TypeOK ==
    /\ \A p \in PaymentIds : loyaltyPayments[p].status \in LoyaltyPaymentStatus
    /\ \A a \in Accounts : pointBalances[a] >= 0 /\ tokenBalances[a] >= 0 /\ nonce[a] >= 0
    /\ usedAmount >= 0
    /\ using \in [Signers -> BOOLEAN]
    /\ \A r \in Requests :
           /\ requests[r].pc \in {"idle", "try", "verified", "funded", "done"}
           /\ requests[r].pc \in {"try", "verified", "funded"} => requests[r].signer \in Signers

(***************************************************************************)
(* Properties.                                                             *)
(***************************************************************************)
RECURSIVE SumOver(_, _)
SumOver(S, f) ==
    IF S = {} THEN 0
    ELSE LET x == CHOOSE y \in S : TRUE IN f[x] + SumOver(S \ {x}, f)

\* a step that commits a call of op (a Tick resets last)
Committed(op) == last'.op = op /\ vars' # vars

StatusEdges ==
    {<<"INVALID", "OPENED_PAYMENT">>,
     <<"OPENED_PAYMENT", "CLOSED_PAYMENT">>, <<"OPENED_PAYMENT", "FAILED_PAYMENT">>,
     <<"CLOSED_PAYMENT", "OPENED_CANCEL">>,
     <<"OPENED_CANCEL", "CLOSED_CANCEL">>, <<"OPENED_CANCEL", "FAILED_CANCEL">>}

\* C1: every change of a record's status is one of the six edges of the state diagram
\* (so FAILED_PAYMENT, CLOSED_CANCEL and FAILED_CANCEL are never left).
C1_OnlyDiagramEdges ==
    [][\A p \in PaymentIds :
          loyaltyPayments'[p].status # loyaltyPayments[p].status
              => <<loyaltyPayments[p].status, loyaltyPayments'[p].status>> \in StatusEdges]_vars

\* C2: no record is ever in a status that it has held before and left.
C2_NoStatusReentered ==
    \A p \in PaymentIds : loyaltyPayments[p].status \notin held[p]

\* C3: openCancel on a record that is not CLOSED_PAYMENT is rejected and changes nothing:
\* a call of openCancel commits only on a record that is CLOSED_PAYMENT.
C3_OpenCancelOnlyFromClosedPayment ==
    [][Committed("openCancel")
          => loyaltyPayments[last'.args.paymentId].status = "CLOSED_PAYMENT"]_vars

InFlight == {p \in PaymentIds : loyaltyPayments[p].status \in {"OPENED_PAYMENT", "OPENED_CANCEL"}}
Escrowed ==
    SumOver(InFlight, [p \in PaymentIds |-> loyaltyPayments[p].paidPoint + loyaltyPayments[p].feePoint])

\* C4: the holding account's point balance equals the sum of paidPoint + feePoint over the
\* records in OPENED_PAYMENT or OPENED_CANCEL.
C4_EscrowBacked == pointBalances[temporaryAddress] = Escrowed

\* C5: no nonce decreases, and a signed call that was accepted is never accepted again
\* with the same arguments.
C5_NoReplay ==
    [][/\ \A a \in Accounts : nonce'[a] >= nonce[a]
       /\ \A op \in {"openPayment", "openCancel"} :
             Committed(op) => [op |-> op, args |-> last'.args] \notin accepted]_vars

\* C6: a committed openPayment leaves the record OPENED_PAYMENT, moves exactly
\* paidPoint + feePoint from the payer to the holding account and adds 1 to the payer's nonce.
C6_OpenPaymentEffect ==
    [][Committed("openPayment") =>
          LET data == last'.args
              payment == loyaltyPayments'[data.paymentId]
              total == payment.paidPoint + payment.feePoint
          IN  /\ payment.status = "OPENED_PAYMENT"
              /\ pointBalances'[temporaryAddress] = pointBalances[temporaryAddress] + total
              /\ pointBalances'[data.account] = pointBalances[data.account] - total
              /\ nonce'[data.account] = nonce[data.account] + 1]_vars

C6_Witness ==
    /\ last.op = "openPayment"
    /\ loyaltyPayments[last.args.paymentId].status = "OPENED_PAYMENT"
    /\ loyaltyPayments[last.args.paymentId].feePoint > 0
    /\ pointBalances[last.args.account] < InitialPoint

\* the points an accepted request takes from the payer
PaymentTotal(data) ==
    convertCurrencyToPoint(data.amount, data.currency)
        + convertCurrencyToPoint(zeroGWEI((data.amount * PaymentFee) \div 10000), data.currency)

\* C7: openPayment on an id whose record is not INVALID fails with 1530 and commits nothing,
\* also when the payer's signature is valid.
C7_DuplicateRejected ==
    \A data \in PaymentInputs :
        loyaltyPayments[data.paymentId].status # "INVALID" =>
            LET r == openPayment(World, data)
            IN  ~r.ok /\ r.code = "1530" /\ r.st = World /\ Commit(World, r) = World

C7_Witness ==
    \E data \in PaymentInputs :
        /\ loyaltyPayments[data.paymentId].status # "INVALID"
        /\ isSignedByPayer(World, data)
        /\ pointBalanceOf(World, data.account) >= PaymentTotal(data)
        /\ openPayment(World, data).code = "1530"

\* C8: openPayment that fails with 1501 (bad signature) or 1511 (insufficient balance)
\* commits nothing: no record, no balance, no nonce; in the 1511 case the nonce was already
\* increased when the call reverted.
C8_FailedOpenIsNoOp ==
    \A data \in PaymentInputs :
        loyaltyPayments[data.paymentId].status = "INVALID" =>
            LET r == openPayment(World, data)
                signed == Recover(PaymentHash(data, nonce[data.account]), data.signature) = data.account
            IN  /\ ~signed => ~r.ok /\ r.code = "1501" /\ r.st = World
                /\ (signed /\ pointBalances[data.account] < PaymentTotal(data)) =>
                       /\ ~r.ok /\ r.code = "1511"
                       /\ r.st.nonce[data.account] = nonce[data.account] + 1
                /\ r.code \in {"1501", "1511"} => ~r.ok /\ Commit(World, r) = World

C8_Witness ==
    /\ \E data \in PaymentInputs : openPayment(World, data).code = "1501"
    /\ \E data \in PaymentInputs :
           LET r == openPayment(World, data)
           IN  r.code = "1511" /\ r.st.nonce # nonce /\ Commit(World, r) = World

\* C9: closePayment or closeCancel on a record in the status the call requires, with a secret
\* whose hash is not the record's secretLock, fails with 1505 before anything was written;
\* in any status a call with such a secret commits nothing.
C9_WrongSecretRejected ==
    \A a \in CloseInputs :
        loyaltyPayments[a.paymentId].secretLock # Keccak(a.secret) =>
            LET r1 == closePayment(World, a)
                r2 == closeCancel(World, a)
            IN  /\ ~r1.ok /\ r1.st = World /\ Commit(World, r1) = World
                /\ ~r2.ok /\ r2.st = World /\ Commit(World, r2) = World
                /\ loyaltyPayments[a.paymentId].status = "OPENED_PAYMENT" => r1.code = "1505"
                /\ loyaltyPayments[a.paymentId].status = "OPENED_CANCEL" => r2.code = "1505"

C9_Witness ==
    /\ \E a \in CloseInputs : closePayment(World, a).code = "1505"
    /\ \E a \in CloseInputs : closeCancel(World, a).code = "1505"

\* a closePayment call has committed on the record: only closePayment sets these statuses
Settled(p) ==
    (held[p] \cup {loyaltyPayments[p].status}) \cap {"CLOSED_PAYMENT", "FAILED_PAYMENT"} # {}

\* C10: once a closePayment has committed on an id, every closePayment on that id fails with
\* 1531 and commits nothing, whatever the secret and the value of confirm.
C10_ClosePaymentOnce ==
    \A a \in CloseInputs :
        Settled(a.paymentId) =>
            LET r == closePayment(World, a)
            IN  ~r.ok /\ r.code = "1531" /\ r.st = World /\ Commit(World, r) = World

C10_Witness ==
    \E a \in CloseInputs :
        /\ Settled(a.paymentId)
        /\ last.op = "closePayment" /\ last.args.paymentId = a.paymentId
        /\ isSecretOf(World, a.paymentId, a.secret)
        /\ closePayment(World, a).code = "1531"

\* C11: openPayment followed by closePayment(confirm = false) on the same id, both accepted
\* and nothing in between, leaves the payer's and the holding account's point balances as
\* they were before the open, and the record FAILED_PAYMENT.
C11_OpenThenRefundRestores ==
    \A data \in PaymentInputs : \A secret \in Secrets :
        LET r1 == openPayment(World, data)
            r2 == closeNewLoyaltyPayment(r1.st, data.paymentId, secret, FALSE)
        IN  r1.ok =>
                /\ isSecretOf(r1.st, data.paymentId, secret) => r2.ok
                /\ r2.ok =>
                       /\ r2.st.pointBalances[data.account] = pointBalances[data.account]
                       /\ r2.st.pointBalances[temporaryAddress] = pointBalances[temporaryAddress]
                       /\ r2.st.loyaltyPayments[data.paymentId].status = "FAILED_PAYMENT"

\* the round trip has been made: the refund was the last call and the payer has all points
C11_Witness ==
    /\ last.op = "closePayment" /\ ~last.args.confirm
    /\ loyaltyPayments[last.args.paymentId].status = "FAILED_PAYMENT"
    /\ held[last.args.paymentId] = {"INVALID", "OPENED_PAYMENT"}
    /\ pointBalances[loyaltyPayments[last.args.paymentId].account] = InitialPoint
    /\ pointBalances[temporaryAddress] = 0

\* all the calls that can be sent in the current state
Calls ==
    {[op |-> "openPayment", args |-> data] : data \in PaymentInputs}
        \cup {[op |-> "closePayment", args |-> a] : a \in CloseInputs}
        \cup {[op |-> "openCancel", args |-> a] : a \in CancelInputs}
        \cup {[op |-> "closeCancel", args |-> a] : a \in CloseInputs}

Outcome(c) ==
    CASE c.op = "openPayment" -> openPayment(World, c.args)
      [] c.op = "closePayment" -> closePayment(World, c.args)
      [] c.op = "openCancel" -> openCancel(World, c.args)
      [] c.op = "closeCancel" -> closeCancel(World, c.args)

Outcomes == {Outcome(c) : c \in Calls}

\* C12: openCancel later than 7 days after the record's timestamp fails with 1534 with
\* nothing written, whoever signed; up to and including timestamp + 7 days it does not fail
\* with 1534; and no call changes the timestamp of an existing record.
C12_CancelWindow ==
    /\ \A a \in CancelInputs :
           LET payment == loyaltyPayments[a.paymentId]
               r == openCancel(World, a)
           IN  /\ now > payment.timestamp + CancelWindow =>
                      ~r.ok /\ r.code = "1534" /\ r.st = World
               /\ now <= payment.timestamp + CancelWindow => r.code # "1534"
    /\ \A r \in Outcomes : \A p \in PaymentIds :
           loyaltyPayments[p].status # "INVALID" =>
               r.st.loyaltyPayments[p].timestamp = loyaltyPayments[p].timestamp

\* one record is past its window and a validly signed cancel of it gets 1534, while the
\* cancel of another record is accepted in the last second of its window
C12_Witness ==
    /\ \E a \in CancelInputs :
           /\ loyaltyPayments[a.paymentId].status # "INVALID"
           /\ now > loyaltyPayments[a.paymentId].timestamp + CancelWindow
           /\ isSignedByShop(World, a.paymentId, a.signature)
           /\ openCancel(World, a).code = "1534"
    /\ \E a \in CancelInputs :
           /\ now = loyaltyPayments[a.paymentId].timestamp + CancelWindow
           /\ openCancel(World, a).ok

\* C13: closePayment(confirm = true) with the right secret on an OPENED_PAYMENT record of an
\* active shop is accepted; it takes paidPoint + feePoint from the holding account, leaving
\* it at 0 when no other record is in flight, leaves the payer's balance alone, stores the
\* paid value converted to the shop's currency in usedValueShop, adds it to the shop's used
\* amount and sets CLOSED_PAYMENT.
C13_SettleEffect ==
    \A a \in CloseInputs :
        LET payment == loyaltyPayments[a.paymentId]
            total == payment.paidPoint + payment.feePoint
            used == convertCurrency(payment.paidValue, payment.currency,
                                    shopOf(payment.shopId).currency)
            r == closePayment(World, a)
            after == r.st.loyaltyPayments[a.paymentId]
        IN  (/\ payment.status = "OPENED_PAYMENT"
             /\ isSecretOf(World, a.paymentId, a.secret)
             /\ a.confirm
             /\ shopOf(payment.shopId).status = "ACTIVE") =>
                /\ r.ok
                /\ r.st.pointBalances[temporaryAddress] = pointBalances[temporaryAddress] - total
                /\ InFlight = {a.paymentId} => r.st.pointBalances[temporaryAddress] = 0
                /\ r.st.pointBalances[payment.account] = pointBalances[payment.account]
                /\ after.usedValueShop = used
                /\ r.st.usedAmount = usedAmount + used
                /\ after.status = "CLOSED_PAYMENT"

\* the signatures the shop's account and its delegator can make for a cancel of a record
\* with the given purchase id, in storage s
ShopSignatures(s, _paymentId, purchaseId) ==
    {Sign(signer, CancelHash(_paymentId, purchaseId, signer, nonceOf(s, signer))) :
        signer \in {ShopAccount, ShopDelegator}}

\* C14: openPayment, closePayment(true), openCancel and closeCancel(true), all accepted and
\* with nothing in between: openCancel leaves the record OPENED_CANCEL and credits the holding
\* account with paidPoint + feePoint; closeCancel leaves the payer's point balance as it was
\* before openPayment, the shop's used amount as it was before the settlement, and the record
\* CLOSED_CANCEL.
C14_CancelRoundTrip ==
    \A data \in PaymentInputs : \A lock \in CancelLocks :
        LET id == data.paymentId
            r1 == openPayment(World, data)
            r2 == closeNewLoyaltyPayment(r1.st, id, CHOOSE x \in Secrets : Keccak(x) = data.secretLock, TRUE)
        IN  \A signature \in ShopSignatures(r2.st, id, data.purchaseId) :
                LET r3 == openCancelLoyaltyPayment(r2.st, id, lock, signature)
                    r4 == closeCancelLoyaltyPayment(r3.st, id, CHOOSE x \in Secrets : Keccak(x) = lock, TRUE)
                    total == r1.st.loyaltyPayments[id].paidPoint + r1.st.loyaltyPayments[id].feePoint
                IN  (r1.ok /\ r2.ok /\ r3.ok) =>
                        /\ r3.st.loyaltyPayments[id].status = "OPENED_CANCEL"
                        /\ r3.st.pointBalances[temporaryAddress]
                               = r2.st.pointBalances[temporaryAddress] + total
                        /\ r4.ok
                        /\ r4.st.pointBalances[data.account] = pointBalances[data.account]
                        /\ r4.st.usedAmount = r1.st.usedAmount
                        /\ r4.st.loyaltyPayments[id].status = "CLOSED_CANCEL"

\* the four calls have been made on a record of an active shop: the cancel was confirmed
\* last, the payer has all points back and the shop's used amount is back at 0
C14_Witness ==
    /\ last.op = "closeCancel" /\ last.args.confirm
    /\ loyaltyPayments[last.args.paymentId].status = "CLOSED_CANCEL"
    /\ held[last.args.paymentId] = {"INVALID", "OPENED_PAYMENT", "CLOSED_PAYMENT", "OPENED_CANCEL"}
    /\ loyaltyPayments[last.args.paymentId].usedValueShop > 0
    /\ pointBalances[loyaltyPayments[last.args.paymentId].account] = InitialPoint
    /\ usedAmount = 0

\* C15: closePayment(confirm = true) with the right secret on an OPENED_PAYMENT record is
\* accepted whatever the system account holds.  The record becomes CLOSED_PAYMENT, the holding
\* points are debited and the usage of an active shop is recorded; when the system account
\* has fewer tokens than feeToken no token balance changes, otherwise exactly feeToken moves
\* from the system account to the fee account.
C15_BestEffortFee ==
    \A a \in CloseInputs :
        LET payment == loyaltyPayments[a.paymentId]
            total == payment.paidPoint + payment.feePoint
            r == closePayment(World, a)
            after == r.st.loyaltyPayments[a.paymentId]
        IN  (/\ payment.status = "OPENED_PAYMENT"
             /\ isSecretOf(World, a.paymentId, a.secret)
             /\ a.confirm) =>
                /\ r.ok
                /\ after.status = "CLOSED_PAYMENT"
                /\ r.st.pointBalances[temporaryAddress] = pointBalances[temporaryAddress] - total
                /\ shopOf(payment.shopId).status = "ACTIVE" =>
                       /\ after.usedValueShop > 0
                       /\ r.st.usedAmount = usedAmount + after.usedValueShop
                /\ IF tokenBalances[systemAccount] < payment.feeToken
                   THEN r.st.tokenBalances = tokenBalances
                   ELSE r.st.tokenBalances =
                            [tokenBalances EXCEPT ![systemAccount] = @ - payment.feeToken,
                                                  ![PaymentFeeAccount] = @ + payment.feeToken]

\* a settlement was committed although the system account could not pay the fee
C15_Witness ==
    /\ last.op = "closePayment" /\ last.args.confirm
    /\ loyaltyPayments[last.args.paymentId].status = "CLOSED_PAYMENT"
    /\ loyaltyPayments[last.args.paymentId].feeToken > 0
    /\ tokenBalances[systemAccount] < loyaltyPayments[last.args.paymentId].feeToken
    /\ tokenBalances[PaymentFeeAccount] = loyaltyPayments[last.args.paymentId].feeToken
    /\ \A p \in PaymentIds : loyaltyPayments[p].status = "CLOSED_PAYMENT"

\* C16: openCancel inside the window and validly signed, while the fee account has fewer
\* tokens than feeToken, fails with 1513 and commits nothing: the nonce that was increased
\* before the balance was looked at is rolled back with everything else.
C16_FeeShortfallIsFatal ==
    \A a \in CancelInputs :
        LET payment == loyaltyPayments[a.paymentId]
            r == openCancel(World, a)
        IN  /\ (/\ inCancelWindow(World, a.paymentId)
                /\ isSignedByShop(World, a.paymentId, a.signature)
                /\ tokenBalances[PaymentFeeAccount] < payment.feeToken) =>
                   /\ ~r.ok /\ r.code = "1513"
                   /\ r.st.nonce[shopOf(payment.shopId).account]
                          = nonce[shopOf(payment.shopId).account] + 1
                   /\ r.st.loyaltyPayments = loyaltyPayments
                   /\ r.st.pointBalances = pointBalances
                   /\ r.st.tokenBalances = tokenBalances
            /\ r.code = "1513" =>
                   /\ ~r.ok /\ Commit(World, r) = World
                   /\ tokenBalances[PaymentFeeAccount] < payment.feeToken

\* a validly signed cancel of a settled payment is refused for want of fee tokens
C16_Witness ==
    \E a \in CancelInputs :
        LET r == openCancel(World, a)
        IN  /\ loyaltyPayments[a.paymentId].status = "CLOSED_PAYMENT"
            /\ r.code = "1513"
            /\ r.st.nonce # nonce
            /\ Commit(World, r) = World

\* C17: an accepted openCancel adds 1 to the nonce of the account whose signature it
\* accepted, and to no other nonce.
C17_CancelConsumesSignerNonce ==
    [][Committed("openCancel") =>
          nonce' = [nonce EXCEPT ![last'.args.signature.signer] = @ + 1]]_vars

\* C18: inside the window, openCancel accepts a signature over the cancel hash made with
\* the signer's current nonce exactly when the signer is the shop's account or the shop's
\* registered delegator; every other signature is refused with 1501 with nothing written.
C18_CancelAuthorization ==
    \A a \in CancelInputs :
        LET payment == loyaltyPayments[a.paymentId]
            shopInfo == shopOf(payment.shopId)
            signer == a.signature.signer
            current == a.signature.msg
                           = CancelHash(a.paymentId, payment.purchaseId, signer, nonce[signer])
            authorized == \/ signer = shopInfo.account
                          \/ shopInfo.delegator # ZeroAddress /\ signer = shopInfo.delegator
            r == openCancel(World, a)
        IN  inCancelWindow(World, a.paymentId) =>
                /\ (current /\ authorized) => (r.ok \/ r.code = "1513")
                /\ ~(current /\ authorized) => ~r.ok /\ r.code = "1501" /\ r.st = World
                /\ (current /\ authorized /\ hasCancelFee(World, payment)) => r.ok

\* in one state, inside the window of a record: the shop's signature and its delegator's are
\* accepted, a stranger's is refused, and so is a signature of the shop over an earlier nonce
C18_Witness ==
    \E p \in PaymentIds :
        LET inputs == {a \in CancelInputs : a.paymentId = p}
            payment == loyaltyPayments[p]
        IN  /\ inCancelWindow(World, p)
            /\ \E a \in inputs : a.signature.signer = ShopAccount /\ openCancel(World, a).ok
            /\ \E a \in inputs : a.signature.signer = ShopDelegator /\ openCancel(World, a).ok
            /\ \E a \in inputs : a.signature.signer = Stranger /\ openCancel(World, a).code = "1501"
            /\ \E a \in inputs :
                   /\ a.signature.signer = ShopAccount
                   /\ a.signature.msg # CancelHash(p, payment.purchaseId, ShopAccount, nonce[ShopAccount])
                   /\ openCancel(World, a).code = "1501"

\* C19: an openPayment request that carries the payer's signature and a secretLock other
\* than the one of the request the payer signed is refused with 1501.
C19_SignatureCommitsToSecretLock ==
    \A data \in RelayedInputs :
        isNewPaymentId(World, data) =>
            LET r == openPayment(World, data)
            IN  ~r.ok /\ (data.signature.signer = data.account => r.code = "1501")

\* C20: a call that is accepted emits exactly one LoyaltyPaymentEvent, with the record as the
\* call leaves it and the payer's point balance as the call leaves it; a call that fails
\* has emitted nothing.
C20_EventOnlyOnCommit ==
    \A c \in Calls :
        LET r == Outcome(c)
            after == r.st.loyaltyPayments[c.args.paymentId]
        IN  /\ r.ok =>
                   /\ Len(r.st.events) = 1
                   /\ r.st.events[1].payment = after
                   /\ r.st.events[1].balance = r.st.pointBalances[after.account]
            /\ ~r.ok => r.st.events = <<>> /\ Commit(World, r) = World

\* a confirmed cancel has just emitted its event, with the refunded balance, and some call
\* would now fail
C20_Witness ==
    /\ last.op = "closeCancel" /\ last.args.confirm
    /\ Len(last.events) = 1
    /\ last.events[1].payment = loyaltyPayments[last.args.paymentId]
    /\ last.events[1].payment.status = "CLOSED_CANCEL"
    /\ last.events[1].balance = pointBalances[last.events[1].payment.account]
    /\ \E c \in Calls : ~Outcome(c).ok

\* C21: isAvailablePaymentId is true exactly for the INVALID records; only an accepted
\* openPayment takes a record out of INVALID and no call puts one back, so an id that was
\* reported unavailable stays unavailable.
C21_AvailableIffInvalid ==
    /\ \A p \in PaymentIds :
           /\ isAvailablePaymentId(p) <=> loyaltyPayments[p].status = "INVALID"
           /\ "INVALID" \in held[p] => ~isAvailablePaymentId(p)
    /\ \A c \in Calls : \A p \in PaymentIds :
           LET r == Outcome(c)
           IN  r.ok =>
                   /\ (loyaltyPayments[p].status = "INVALID"
                          /\ r.st.loyaltyPayments[p].status # "INVALID")
                         => c.op = "openPayment" /\ c.args.paymentId = p
                   /\ loyaltyPayments[p].status # "INVALID"
                         => r.st.loyaltyPayments[p].status # "INVALID"

\* one id is taken, by a payment that has run through its whole life, the other is free
C21_Witness ==
    /\ \E p \in PaymentIds :
           /\ ~isAvailablePaymentId(p)
           /\ loyaltyPayments[p].status \in {"FAILED_PAYMENT", "CLOSED_CANCEL", "FAILED_CANCEL"}
    /\ \E p \in PaymentIds : isAvailablePaymentId(p)

\* the storage with the holding account's point balance set to amount
WithHolding(amount) == [World EXCEPT !.pointBalances[temporaryAddress] = amount]

\* C22: closeCancel(confirm = false) with the right secret on an OPENED_CANCEL record is
\* accepted: feeToken tokens move from the holding account to the fee account, the holding
\* account's points decrease by paidPoint + feePoint, the payer's points and the shop's used
\* amount stay, and the record becomes FAILED_CANCEL.  Were the holding account short of
\* points, the call would revert and commit nothing.
C22_RejectedCancelEffect ==
    \A a \in CloseInputs :
        LET payment == loyaltyPayments[a.paymentId]
            total == payment.paidPoint + payment.feePoint
            r == closeCancel(World, a)
            short == WithHolding(total - 1)
            rs == closeCancel(short, a)
        IN  (/\ payment.status = "OPENED_CANCEL"
             /\ isSecretOf(World, a.paymentId, a.secret)
             /\ ~a.confirm) =>
                /\ r.ok
                /\ r.st.tokenBalances =
                       [tokenBalances EXCEPT ![temporaryAddress] = @ - payment.feeToken,
                                             ![PaymentFeeAccount] = @ + payment.feeToken]
                /\ r.st.pointBalances =
                       [pointBalances EXCEPT ![temporaryAddress] = @ - total]
                /\ r.st.usedAmount = usedAmount
                /\ r.st.loyaltyPayments[a.paymentId].status = "FAILED_CANCEL"
                /\ ~rs.ok /\ rs.st.tokenBalances # tokenBalances /\ Commit(short, rs) = short

\* a cancel has just been rejected by the payer: the fee is back in the fee account
C22_Witness ==
    /\ last.op = "closeCancel" /\ ~last.args.confirm
    /\ loyaltyPayments[last.args.paymentId].status = "FAILED_CANCEL"
    /\ loyaltyPayments[last.args.paymentId].feeToken > 0
    /\ tokenBalances[PaymentFeeAccount] >= loyaltyPayments[last.args.paymentId].feeToken
    /\ tokenBalances[temporaryAddress] = 0

\* a record with the three fields that calls rewrite taken from another record
WithRewritable(payment, from) ==
    [payment EXCEPT !.status = from.status, !.secretLock = from.secretLock,
                    !.usedValueShop = from.usedValueShop]

\* C23: no call changes, in a record that has left INVALID, any field other than status,
\* secretLock and usedValueShop.
C23_OpenFieldsFixed ==
    \A c \in Calls : \A p \in PaymentIds :
        loyaltyPayments[p].status # "INVALID" =>
            WithRewritable(Outcome(c).st.loyaltyPayments[p], loyaltyPayments[p])
                = loyaltyPayments[p]

\* a record that was settled a block after it was opened and then cancelled: status,
\* secretLock and usedValueShop were all rewritten, the timestamp is the one of the open
C23_Witness ==
    \E p \in PaymentIds :
        /\ loyaltyPayments[p].status = "OPENED_CANCEL"
        /\ loyaltyPayments[p].secretLock \in CancelLocks
        /\ loyaltyPayments[p].usedValueShop > 0
        /\ loyaltyPayments[p].timestamp < now
        /\ last.op = "openCancel" /\ last.args.paymentId = p

\* C24: closePayment(confirm = true) with the right secret on an OPENED_PAYMENT record whose
\* shop is not active is accepted, debits the holding account and sets CLOSED_PAYMENT, but
\* leaves usedValueShop at 0 and the shop's used amount as it is; a confirmed cancel of the
\* payment afterwards leaves the used amount as it is too.
C24_InactiveShopSettle ==
    \A a \in CloseInputs : \A lock \in CancelLocks :
        LET id == a.paymentId
            payment == loyaltyPayments[id]
            total == payment.paidPoint + payment.feePoint
            r2 == closePayment(World, a)
        IN  (/\ payment.status = "OPENED_PAYMENT"
             /\ isSecretOf(World, id, a.secret)
             /\ a.confirm
             /\ shopOf(payment.shopId).status # "ACTIVE") =>
                /\ r2.ok
                /\ r2.st.loyaltyPayments[id].status = "CLOSED_PAYMENT"
                /\ r2.st.pointBalances[temporaryAddress] = pointBalances[temporaryAddress] - total
                /\ r2.st.loyaltyPayments[id].usedValueShop = 0
                /\ r2.st.usedAmount = usedAmount
                /\ \A signature \in ShopSignatures(r2.st, id, payment.purchaseId) :
                       LET r3 == openCancelLoyaltyPayment(r2.st, id, lock, signature)
                           r4 == closeCancelLoyaltyPayment(
                                     r3.st, id, CHOOSE x \in Secrets : Keccak(x) = lock, TRUE)
                       IN  r3.ok =>
                               /\ r4.ok
                               /\ r4.st.loyaltyPayments[id].status = "CLOSED_CANCEL"
                               /\ r4.st.usedAmount = usedAmount

\* a payment of an inactive shop was settled and its cancel confirmed
C24_Witness ==
    /\ shop.status # "ACTIVE"
    /\ last.op = "closeCancel" /\ last.args.confirm
    /\ loyaltyPayments[last.args.paymentId].status = "CLOSED_CANCEL"
    /\ "CLOSED_PAYMENT" \in held[last.args.paymentId]
    /\ loyaltyPayments[last.args.paymentId].usedValueShop = 0
    /\ usedAmount = 0

\* C25: the points given back to the payer for a record, by closePayment(false) and
\* closeCancel(true) together, never exceed the paidPoint + feePoint taken for it.
C25_NoDoubleRefund ==
    \A p \in PaymentIds :
        refunded[p] <= loyaltyPayments[p].paidPoint + loyaltyPayments[p].feePoint

\* C26: the holding account has at least the sum of paidPoint + feePoint over the records in
\* OPENED_PAYMENT or OPENED_CANCEL, and closePayment on an OPENED_PAYMENT record and
\* closeCancel(confirm = false) on an OPENED_CANCEL record, with the right secret, do not
\* fail for want of holding points: they are accepted.
C26_EscrowNeverShort ==
    /\ pointBalances[temporaryAddress] >= Escrowed
    /\ \A a \in CloseInputs :
           isSecretOf(World, a.paymentId, a.secret) =>
               /\ loyaltyPayments[a.paymentId].status = "OPENED_PAYMENT"
                      => closePayment(World, a).ok
               /\ (loyaltyPayments[a.paymentId].status = "OPENED_CANCEL" /\ ~a.confirm)
                      => closeCancel(World, a).ok

\* a payment and a cancellation are in flight together, exactly backed, and each can be closed
C26_Witness ==
    /\ \E p, q \in InFlight :
           /\ loyaltyPayments[p].status = "OPENED_PAYMENT"
           /\ loyaltyPayments[q].status = "OPENED_CANCEL"
    /\ pointBalances[temporaryAddress] = Escrowed
    /\ \E a \in CloseInputs : closePayment(World, a).ok
    /\ \E a \in CloseInputs : ~a.confirm /\ closeCancel(World, a).ok

\* the tokens of the system account, the fee account and the holding account in storage s
CoreTokens(s) ==
    s.tokenBalances[systemAccount] + s.tokenBalances[PaymentFeeAccount]
        + s.tokenBalances[temporaryAddress]

\* C27: the token balances of the system account, the fee account and the holding account
\* always add up to what they added up to at the start, no accepted call changes their sum,
\* and no call changes the token balance of any other account.
C27_TokensConserved ==
    /\ CoreTokens(World) = InitialSystemToken
    /\ \A a \in Accounts \ {systemAccount, PaymentFeeAccount, temporaryAddress} :
           tokenBalances[a] = 0
    /\ \A r \in Outcomes :
           LET post == Commit(World, r)
           IN  /\ CoreTokens(post) = CoreTokens(World)
               /\ \A a \in Accounts \ {systemAccount, PaymentFeeAccount, temporaryAddress} :
                      post.tokenBalances[a] = tokenBalances[a]

\* the fee of a settled payment has travelled on into the holding account
C27_Witness ==
    /\ last.op = "openCancel"
    /\ tokenBalances[temporaryAddress] > 0
    /\ tokenBalances[temporaryAddress] = loyaltyPayments[last.args.paymentId].feeToken
    /\ tokenBalances[systemAccount] < InitialSystemToken

\* C28: closePayment(true), openCancel and closeCancel(true) on one payment, all accepted and
\* with nothing in between, leave the token balances of the system account and of the fee
\* account as they were before the settlement, also when the settlement skipped the fee.
C28_FeeRoundTrip ==
    \A a \in CloseInputs : \A lock \in CancelLocks :
        LET id == a.paymentId
            payment == loyaltyPayments[id]
            r2 == closePayment(World, a)
        IN  (payment.status = "OPENED_PAYMENT" /\ a.confirm /\ r2.ok) =>
                \A signature \in ShopSignatures(r2.st, id, payment.purchaseId) :
                    LET r3 == openCancelLoyaltyPayment(r2.st, id, lock, signature)
                        r4 == closeCancelLoyaltyPayment(
                                  r3.st, id, CHOOSE x \in Secrets : Keccak(x) = lock, TRUE)
                    IN  (r3.ok /\ r4.ok) =>
                            /\ r4.st.tokenBalances[systemAccount] = tokenBalances[systemAccount]
                            /\ r4.st.tokenBalances[PaymentFeeAccount]
                                   = tokenBalances[PaymentFeeAccount]

\* the payer of the payment a call is about: the account of the request for openPayment,
\* the account of the stored record for the other calls
PayerOf(c) ==
    IF c.op = "openPayment" THEN c.args.account ELSE loyaltyPayments[c.args.paymentId].account

\* C29: a call on a payment id, accepted or not, changes no field of the record of another
\* id and no point balance other than those of the payment's payer and the holding account.
C29_PaymentsIsolated ==
    \A c \in Calls :
        LET r == Outcome(c)
        IN  /\ \A q \in PaymentIds \ {c.args.paymentId} :
                   r.st.loyaltyPayments[q] = loyaltyPayments[q]
            /\ \A a \in Accounts \ {PayerOf(c), temporaryAddress} :
                   r.st.pointBalances[a] = pointBalances[a]

\* a cancel of one payment was confirmed while another payment is open
C29_Witness ==
    /\ last.op = "closeCancel" /\ last.args.confirm
    /\ loyaltyPayments[last.args.paymentId].status = "CLOSED_CANCEL"
    /\ \E q \in PaymentIds \ {last.args.paymentId} :
           loyaltyPayments[q].status = "OPENED_PAYMENT"
    /\ \A a \in Accounts \ (Payers \cup {temporaryAddress}) : pointBalances[a] = 0

\* C30: a signer is marked in use only while a request that acquired it is still running,
\* so when a request has finished, by a response, an early return or an exception, it has
\* released its signer; and a transaction was submitted only for a request whose signature
\* the relay had verified.
C30_SignerReleased ==
    /\ \A s \in Signers :
           using[s] => \E r \in Requests :
                           requests[r].pc \in {"try", "verified", "funded"} /\ requests[r].signer = s
    /\ \A r \in Requests : requests[r].submitted => requests[r].verified

\* one request was refused for its signature, another was served with a transaction, and
\* no signer is marked in use
C30_Witness ==
    /\ \E r \in Requests : requests[r].pc = "done" /\ requests[r].result = "1501"
    /\ \E r \in Requests : requests[r].pc = "done" /\ requests[r].submitted
    /\ \A s \in Signers : ~using[s]

====
